---- MODULE Spec2Model ----
(***************************************************************************)
(* The cw20 escrow contract (src/src/contract.rs, src/src/state.rs,        *)
(* src/src/msg.rs) as a state machine.  The store is the "liability"       *)
(* bucket, a partial map from escrow id to Escrow.  Every entry point runs *)
(* to completion as one step (CosmWasm executes one message at a time and  *)
(* discards the writes of a message that returns an error).                *)
(*                                                                         *)
(* Option<T> is modelled as a sequence: <<>> is None, <<x>> is Some(x).    *)
(* Vec<T> is a sequence.  u64 deadlines are naturals kept far below 2^64.   *)
(* Uint128 is scaled down: its largest value is Uint128Max, and an          *)
(* addition that passes it panics, as Uint128's += does (checked_add,      *)
(* unwrap): the execution aborts with nothing written and no ContractError.*)
(***************************************************************************)
EXTENDS Integers, Sequences, FiniteSets, TLC

\* ------------------------------------------------------------------ bounds
MaxHeight == 1
MaxSecs == 1
MaxCoins == 1
MaxAmount == 2

\* --------------------------------------------------------------- input sets
Ids == {"e1", "e2"}
Addrs == {"arbiter", "recipient", "sender"}
Tokens == {"token_contract"}
OtherTokens == {"other_contract"}
Denoms == {"tok", "utok"}

None == <<>>
Some(x) == <<x>>

Heights == 0..MaxHeight
\* block time in nanoseconds: whole seconds plus a few sub-second offsets
SubSecNanos == {0, 1000, 1001}
Times == {s * 1000000000 + n : s \in 0..MaxSecs, n \in SubSecNanos}
OptHeights == {None} \cup {Some(h) : h \in 0..(MaxHeight - 1)}
OptSecs == {None} \cup {Some(s) : s \in 1..MaxSecs}

\* the amounts a message carries: nothing, or one unit
Amounts == {0, 1}
Coin == [denom : Denoms, amount : Amounts]
Coins == UNION {[1..n -> Coin] : n \in 0..MaxCoins}
\* cw20::Balance: Native(NativeBalance(Vec<Coin>)) or Cw20(Cw20CoinVerified)
Native(coins) == [kind |-> "native", coins |-> coins, address |-> "", amount |-> 0]
Cw20(address, amount) == [kind |-> "cw20", coins |-> <<>>, address |-> address, amount |-> amount]

\* escrows:   the "liability" bucket, escrow id -> Escrow
\* height, time: the block the next message executes in (time in nanoseconds)
\* last:      the message executed last, with its sender and funds, the block,
\*            the bucket before it and the response it returned
\* deposited: history: per live escrow, the total accepted per denom and token
\* spent:     history: the ids released by approve or refund and not created since
VARIABLES escrows, height, time, last, deposited, spent

vars == <<escrows, height, time, last, deposited, spent>>

\* ------------------------------------------------------------------ state.rs
Escrow(arbiter, recipient, source, end_height, end_time, balance) ==
    [arbiter |-> arbiter, recipient |-> recipient, source |-> source,
     end_height |-> end_height, end_time |-> end_time, balance |-> balance]

GenericBalance(native, cw20) == [native |-> native, cw20 |-> cw20]

\* faulty variant: the height deadline itself counts as passed
is_expired_at_deadline(escrow, env) ==
    \/ escrow.end_height # None /\ env.height >= escrow.end_height[1]
    \/ escrow.end_time # None /\ env.time > escrow.end_time[1] * 1000

\* env.time is env.block.time.nanos(); end_time * 1000 stays far below 2^64 here
is_expired(escrow, env) ==
    \/ escrow.end_height # None /\ env.height > escrow.end_height[1]
    \/ escrow.end_time # None /\ env.time > escrow.end_time[1] * 1000

escrows_read(storage, id) ==
    IF id \in DOMAIN storage THEN Some(storage[id]) ELSE None

\* faulty variant: the record is saved under every id in use
escrows_save_everywhere(storage, escrow, id) ==
    [k \in DOMAIN storage \cup {id} |-> escrow]

escrows_save(storage, escrow, id) ==
    [k \in DOMAIN storage \cup {id} |-> IF k = id THEN escrow ELSE storage[k]]

\* faulty variant: the update overwrites what it finds
escrows_update_overwrite(storage, escrow, id) ==
    [storage |-> escrows_save(storage, escrow, id), err |-> "Ok"]

\* Bucket::update: the closure's error leaves the bucket as it was
escrows_update(storage, escrow, id) ==
    IF id \in DOMAIN storage
    THEN [storage |-> storage, err |-> "IdAlreadyExists"]
    ELSE [storage |-> escrows_save(storage, escrow, id), err |-> "Ok"]

\* faulty variant: the delete is lost
escrows_remove_lost(storage, id) == storage

escrows_remove(storage, id) ==
    [k \in DOMAIN storage \ {id} |-> storage[k]]

\* index of the first entry whose key (denom or address) matches, 0 when none
FindIndex(list, key, name) ==
    LET hits == {i \in 1..Len(list) : list[i][name] = key}
    IN  IF hits = {} THEN 0 ELSE CHOOSE i \in hits : \A j \in hits : i <= j

\* faulty variant: a matching entry is overwritten, not added to
AddCoin_overwrite(native, token) ==
    LET idx == FindIndex(native, token.denom, "denom")
    IN  IF idx # 0
        THEN [native EXCEPT ![idx].amount = token.amount]
        ELSE Append(native, token)

\* faulty variant: a new denomination goes to the front of the list
AddCoin_in_front(native, token) ==
    LET idx == FindIndex(native, token.denom, "denom")
    IN  IF idx # 0
        THEN [native EXCEPT ![idx].amount = @ + token.amount]
        ELSE <<token>> \o native

AddCoin(native, token) ==
    LET idx == FindIndex(native, token.denom, "denom")
    IN  IF idx # 0
        THEN [native EXCEPT ![idx].amount = @ + token.amount]
        ELSE Append(native, token)

RECURSIVE AddCoins(_, _)
AddCoins(native, coins) ==
    IF coins = <<>> THEN native
    ELSE AddCoins(AddCoin(native, Head(coins)), Tail(coins))

AddCw20(cw20, token) ==
    LET idx == FindIndex(cw20, token.address, "address")
    IN  IF idx # 0
        THEN [cw20 EXCEPT ![idx].amount = @ + token.amount]
        ELSE Append(cw20, token)

add_tokens(self, add) ==
    IF add.kind = "native"
    THEN GenericBalance(AddCoins(self.native, add.coins), self.cw20)
    ELSE GenericBalance(self.native,
                        AddCw20(self.cw20, [address |-> add.address, amount |-> add.amount]))

\* the largest value of the (scaled down) Uint128
Uint128Max == MaxAmount

\* some += of add_tokens passes Uint128Max (amounts only grow along the way, so
\* this is the case exactly when an amount of the exact sum is above it)
add_tokens_panics(self, add) ==
    LET sum == add_tokens(self, add)
    IN  \/ \E i \in 1..Len(sum.native) : sum.native[i].amount > Uint128Max
        \/ \E i \in 1..Len(sum.cw20) : sum.cw20[i].amount > Uint128Max

\* Balance::is_empty as called by try_create and try_top_up: a native balance
\* is empty when no coin has a non-zero amount, a cw20 one when its amount is 0
\* faulty variant: no funding counts as empty
is_empty_never(balance) == FALSE

is_empty(balance) ==
    IF balance.kind = "native"
    THEN \A i \in 1..Len(balance.coins) : balance.coins[i].amount = 0
    ELSE balance.amount = 0

\* --------------------------------------------------------------- contract.rs
Resp(err, messages, payload) == [err |-> err, messages |-> messages, payload |-> payload]
Ok(messages) == Resp("Ok", messages, <<>>)
Err(err) == Resp(err, <<>>, <<>>)

\* the outcome of an entry point: the storage it leaves and its response
Outcome(storage, res) == [storage |-> storage, res |-> res]

BankSend(to_address, amount) ==
    [kind |-> "bank", to_address |-> to_address, amount |-> amount]
WasmExecuteTransfer(contract_addr, recipient, amount) ==
    [kind |-> "wasm", contract_addr |-> contract_addr, recipient |-> recipient, amount |-> amount]

\* faulty variant: the token transfers come before the bank transfer
send_tokens_cw20_first(to_address, amount) ==
    LET native_balance == amount.native
        msgs == IF native_balance = <<>> THEN <<>>
                ELSE <<BankSend(to_address, native_balance)>>
        cw20_msgs == [i \in 1..Len(amount.cw20) |->
                        WasmExecuteTransfer(amount.cw20[i].address, to_address, amount.cw20[i].amount)]
    IN  cw20_msgs \o msgs

send_tokens(to_address, amount) ==
    LET native_balance == amount.native
        msgs == IF native_balance = <<>> THEN <<>>
                ELSE <<BankSend(to_address, native_balance)>>
        cw20_msgs == [i \in 1..Len(amount.cw20) |->
                        WasmExecuteTransfer(amount.cw20[i].address, to_address, amount.cw20[i].amount)]
    IN  msgs \o cw20_msgs

\* faulty variant: the id is looked up before the funds are
try_create_id_first(storage, msg, balance, sender) ==
    IF msg.id \in DOMAIN storage THEN Outcome(storage, Err("IdAlreadyExists"))
    ELSE IF is_empty(balance) THEN Outcome(storage, Err("ZeroBalance"))
    ELSE Outcome(escrows_save(storage,
                              Escrow(msg.arbiter, msg.recipient, sender, msg.end_height, msg.end_time,
                                     add_tokens(GenericBalance(<<>>, <<>>), balance)),
                              msg.id),
                 Ok(<<>>))

try_create(storage, msg, balance, sender) ==
    IF is_empty(balance) THEN Outcome(storage, Err("ZeroBalance"))
    ELSE LET escrow_balance == IF balance.kind = "native"
                               THEN GenericBalance(balance.coins, <<>>)
                               ELSE GenericBalance(<<>>, <<[address |-> balance.address,
                                                           amount |-> balance.amount]>>)
             escrow == Escrow(msg.arbiter, msg.recipient, sender,
                              msg.end_height, msg.end_time, escrow_balance)
             res == escrows_update(storage, escrow, msg.id)
         IN  IF res.err = "Ok" THEN Outcome(res.storage, Ok(<<>>))
             ELSE Outcome(res.storage, Err("IdAlreadyExists"))

\* faulty variant: expiry is checked before the caller is
try_approve_expiry_first(storage, env, info, id) ==
    LET read == escrows_read(storage, id)
        escrow == read[1]
    IN  IF read = None THEN Outcome(storage, Err("NotFound"))
        ELSE IF is_expired(escrow, env)
        THEN Outcome(storage, Resp("Expired", <<>>, <<escrow.end_height, escrow.end_time>>))
        ELSE IF escrow.arbiter # info.sender THEN Outcome(storage, Err("Unauthorized"))
        ELSE Outcome(escrows_remove(storage, id),
                     Ok(send_tokens(escrow.recipient, escrow.balance)))

\* faulty variant: the record is removed before the expiry check
try_approve_remove_first(storage, env, info, id) ==
    LET read == escrows_read(storage, id)
        escrow == read[1]
    IN  IF read = None THEN Outcome(storage, Err("NotFound"))
        ELSE IF escrow.arbiter # info.sender THEN Outcome(storage, Err("Unauthorized"))
        ELSE IF is_expired(escrow, env)
        THEN Outcome(escrows_remove(storage, id),
                     Resp("Expired", <<>>, <<escrow.end_height, escrow.end_time>>))
        ELSE Outcome(escrows_remove(storage, id),
                     Ok(send_tokens(escrow.recipient, escrow.balance)))

try_approve(storage, env, info, id) ==
    LET read == escrows_read(storage, id)
        escrow == read[1]
    IN  IF read = None THEN Outcome(storage, Err("NotFound"))
        ELSE IF escrow.arbiter # info.sender THEN Outcome(storage, Err("Unauthorized"))
        ELSE IF is_expired(escrow, env)
        THEN Outcome(storage, Resp("Expired", <<>>, <<escrow.end_height, escrow.end_time>>))
        ELSE Outcome(escrows_remove(storage, id),
                     Ok(send_tokens(escrow.recipient, escrow.balance)))

\* faulty variant: the refund goes to the source
try_refund_to_source(storage, info, id) ==
    LET read == escrows_read(storage, id)
        escrow == read[1]
    IN  IF read = None THEN Outcome(storage, Err("NotFound"))
        ELSE IF info.sender # escrow.arbiter THEN Outcome(storage, Err("Unauthorized"))
        ELSE Outcome(escrows_remove(storage, id),
                     Ok(send_tokens(escrow.source, escrow.balance)))

try_refund(storage, info, id) ==
    LET read == escrows_read(storage, id)
        escrow == read[1]
    IN  IF read = None THEN Outcome(storage, Err("NotFound"))
        ELSE IF info.sender # escrow.arbiter THEN Outcome(storage, Err("Unauthorized"))
        ELSE Outcome(escrows_remove(storage, id),
                     Ok(send_tokens(escrow.recipient, escrow.balance)))

try_top_up(storage, balance, id) ==
    IF is_empty(balance) THEN Outcome(storage, Err("ZeroBalance"))
    ELSE LET read == escrows_read(storage, id)
             escrow == read[1]
         IN  IF read = None THEN Outcome(storage, Err("NotFound"))
             ELSE IF add_tokens_panics(escrow.balance, balance)
             THEN Outcome(storage, Err("Panic"))
             ELSE Outcome(escrows_save(storage,
                                       [escrow EXCEPT !.balance = add_tokens(@, balance)], id),
                          Ok(<<>>))

\* wrapper.msg is the binary body: it decodes to a ReceiveMsg or fails to parse
\* faulty variant: the token is named by the message, not by the caller
try_receive_named_token(storage, info, wrapper) ==
    LET balance == Cw20(wrapper.sender, wrapper.amount)
    IN  IF wrapper.msg.kind = "create"
        THEN try_create(storage, wrapper.msg.create, balance, wrapper.sender)
        ELSE IF wrapper.msg.kind = "top_up"
        THEN try_top_up(storage, balance, wrapper.msg.id)
        ELSE Outcome(storage, Err("ParseErr"))

try_receive(storage, info, wrapper) ==
    LET balance == Cw20(info.sender, wrapper.amount)
    IN  IF wrapper.msg.kind = "create"
        THEN try_create(storage, wrapper.msg.create, balance, wrapper.sender)
        ELSE IF wrapper.msg.kind = "top_up"
        THEN try_top_up(storage, balance, wrapper.msg.id)
        ELSE Outcome(storage, Err("ParseErr"))

\* faulty variant: the arbiter is reported as the source
query_details_arbiter_source(storage, id) ==
    LET read == escrows_read(storage, id)
        escrow == read[1]
    IN  IF read = None THEN Err("NotFound")
        ELSE Resp("Ok", <<>>,
                  <<[id |-> id, arbiter |-> escrow.arbiter, recipient |-> escrow.recipient,
                     source |-> escrow.arbiter, end_height |-> escrow.end_height,
                     end_time |-> escrow.end_time, native_balance |-> escrow.balance.native,
                     cw20_balance |-> escrow.balance.cw20]>>)

query_details(storage, id) ==
    LET read == escrows_read(storage, id)
        escrow == read[1]
    IN  IF read = None THEN Err("NotFound")
        ELSE Resp("Ok", <<>>,
                  <<[id |-> id, arbiter |-> escrow.arbiter, recipient |-> escrow.recipient,
                     source |-> escrow.source, end_height |-> escrow.end_height,
                     end_time |-> escrow.end_time, native_balance |-> escrow.balance.native,
                     cw20_balance |-> escrow.balance.cw20]>>)

\* ExecuteMsg variants
MsgCreate(msg) == [kind |-> "create", id |-> msg.id, create |-> msg]
MsgApprove(id) == [kind |-> "approve", id |-> id]
MsgRefund(id) == [kind |-> "refund", id |-> id]
MsgTopUp(id) == [kind |-> "top_up", id |-> id]
MsgReceive(wrapper) == [kind |-> "receive", id |-> wrapper.msg.id, receive |-> wrapper]
MsgDetails(id) == [kind |-> "details", id |-> id]

\* faulty variant: a native top-up of an expired escrow is refused
execute_top_up_unexpired(storage, env, info, msg) ==
    IF msg.kind = "create"
    THEN try_create(storage, msg.create, Native(info.funds), info.sender)
    ELSE IF msg.kind = "approve" THEN try_approve(storage, env, info, msg.id)
    ELSE IF msg.kind = "refund" THEN try_refund(storage, info, msg.id)
    ELSE IF msg.kind = "top_up"
    THEN IF msg.id \in DOMAIN storage /\ is_expired(storage[msg.id], env)
         THEN Outcome(storage, Err("Expired"))
         ELSE try_top_up(storage, Native(info.funds), msg.id)
    ELSE try_receive(storage, info, msg.receive)

execute(storage, env, info, msg) ==
    IF msg.kind = "create"
    THEN try_create(storage, msg.create, Native(info.funds), info.sender)
    ELSE IF msg.kind = "approve" THEN try_approve(storage, env, info, msg.id)
    ELSE IF msg.kind = "refund" THEN try_refund(storage, info, msg.id)
    ELSE IF msg.kind = "top_up" THEN try_top_up(storage, Native(info.funds), msg.id)
    ELSE try_receive(storage, info, msg.receive)

query(storage, env, msg) == Outcome(storage, query_details(storage, msg.id))

\* ------------------------------------------------------- the host's messages
Info(sender, funds) == [sender |-> sender, funds |-> funds]
Env(h, t) == [height |-> h, time |-> t]

RECURSIVE SumDenom(_, _)
SumDenom(coins, denom) ==
    IF coins = <<>> THEN 0
    ELSE (IF Head(coins).denom = denom THEN Head(coins).amount ELSE 0)
         + SumDenom(Tail(coins), denom)

RECURSIVE SumToken(_, _)
SumToken(cw20, address) ==
    IF cw20 = <<>> THEN 0
    ELSE (IF Head(cw20).address = address THEN Head(cw20).amount ELSE 0)
         + SumToken(Tail(cw20), address)

NoDeposit ==
    [native |-> [d \in Denoms |-> 0], cw20 |-> [t \in Tokens \cup OtherTokens |-> 0]]

\* the totals after one more accepted Balance
Deposit(total, balance) ==
    IF balance.kind = "native"
    THEN [total EXCEPT !.native = [d \in Denoms |-> @[d] + SumDenom(balance.coins, d)]]
    ELSE [total EXCEPT !.cw20[balance.address] = @ + balance.amount]

\* the Balance the entry point hands to try_create or try_top_up
Funding(info, msg) ==
    IF msg.kind = "receive" THEN Cw20(info.sender, msg.receive.amount)
    ELSE Native(info.funds)

\* what the message does: "create", "top_up", "approve", "refund", "details", "malformed"
Operation(msg) == IF msg.kind = "receive" THEN msg.receive.msg.kind ELSE msg.kind

\* the model stops accepting funds once a stored amount would pass max
WithinBounds(storage, max) ==
    \A id \in DOMAIN storage :
        /\ \A i \in 1..Len(storage[id].balance.native) :
               storage[id].balance.native[i].amount <= max
        /\ \A i \in 1..Len(storage[id].balance.cw20) :
               storage[id].balance.cw20[i].amount <= max

Deposited(out, info, msg) ==
    LET id == msg.id
    IN  IF out.res.err # "Ok" THEN deposited
        ELSE IF Operation(msg) = "create"
        THEN [k \in DOMAIN deposited \cup {id} |->
                IF k = id THEN Deposit(NoDeposit, Funding(info, msg)) ELSE deposited[k]]
        ELSE IF Operation(msg) = "top_up"
        THEN [deposited EXCEPT ![id] = Deposit(@, Funding(info, msg))]
        ELSE IF Operation(msg) \in {"approve", "refund"}
        THEN [k \in DOMAIN deposited \ {id} |-> deposited[k]]
        ELSE deposited

Spent(out, msg) ==
    IF out.res.err # "Ok" THEN spent
    ELSE IF Operation(msg) = "create" THEN spent \ {msg.id}
    ELSE IF Operation(msg) \in {"approve", "refund"} THEN spent \cup {msg.id}
    ELSE spent

\* one message, executed to completion in the current block (which it leaves as it is)
Step(U, info, msg) ==
    LET env == Env(height, time)
        out == IF msg.kind = "details" THEN query(escrows, env, msg)
               ELSE execute(escrows, env, info, msg)
    IN  /\ WithinBounds(out.storage, U.max_amount)
        /\ escrows' = out.storage
        /\ last' = [msg |-> msg, info |-> info, env |-> env, before |-> escrows, res |-> out.res]
        /\ deposited' = Deposited(out, info, msg)
        /\ spent' = Spent(out, msg)

\* U is the set of inputs the host draws its messages from
CreateMsgsOf(U) ==
    [id : U.ids, arbiter : U.arbiters, recipient : U.recipients,
     end_height : U.end_heights, end_time : U.end_times]

ReceiveMsgsOf(U) ==
    {[kind |-> "create", id |-> m.id, create |-> m] : m \in CreateMsgsOf(U)}
    \cup {[kind |-> "top_up", id |-> id] : id \in U.ids}
    \cup {[kind |-> "malformed", id |-> ""]}

Init(U) ==
    /\ escrows = <<>>
    /\ deposited = <<>>
    /\ spent = {}
    /\ height \in U.heights
    /\ time \in U.times
    /\ last = [msg |-> [kind |-> "instantiate", id |-> ""], info |-> Info("sender", <<>>),
               env |-> Env(height, time), before |-> <<>>, res |-> Ok(<<>>)]

Create(U) ==
    \E msg \in CreateMsgsOf(U), sender \in U.funders, funds \in U.funds :
        /\ Step(U, Info(sender, funds), MsgCreate(msg))
        /\ UNCHANGED <<height, time>>

Approve(U) ==
    \E id \in U.ids, sender \in U.callers :
        /\ Step(U, Info(sender, <<>>), MsgApprove(id))
        /\ UNCHANGED <<height, time>>

Refund(U) ==
    \E id \in U.ids, sender \in U.callers :
        /\ Step(U, Info(sender, <<>>), MsgRefund(id))
        /\ UNCHANGED <<height, time>>

TopUp(U) ==
    \E id \in U.ids, sender \in U.funders, funds \in U.funds :
        /\ Step(U, Info(sender, funds), MsgTopUp(id))
        /\ UNCHANGED <<height, time>>

Receive(U) ==
    \E token \in U.tokens, amount \in U.cw20_amounts, sender \in U.funders, msg \in ReceiveMsgsOf(U) :
        /\ Step(U, Info(token, <<>>), MsgReceive([sender |-> sender, amount |-> amount, msg |-> msg]))
        /\ UNCHANGED <<height, time>>

Details(U) ==
    \E id \in U.ids :
        /\ Step(U, Info("", <<>>), MsgDetails(id))
        /\ UNCHANGED <<height, time>>

NextBlock(U) ==
    /\ \E h \in U.heights, t \in U.times :
          /\ h > height
          /\ t >= time
          /\ height' = h
          /\ time' = t
          /\ last' = [msg |-> [kind |-> "block", id |-> ""], info |-> Info("", <<>>),
                      env |-> Env(h, t), before |-> escrows, res |-> Ok(<<>>)]
    /\ UNCHANGED <<escrows, deposited, spent>>

Next(U) ==
    \/ Create(U)
    \/ Approve(U)
    \/ Refund(U)
    \/ TopUp(U)
    \/ Receive(U)
    \/ Details(U)
    \/ NextBlock(U)

\* deadlines in full, one asset
UDeadlines ==
    [ids |-> {"e1"}, arbiters |-> {"arbiter"}, recipients |-> {"recipient"},
     funders |-> {"sender"}, callers |-> Addrs,
     end_heights |-> OptHeights, end_times |-> OptSecs,
     heights |-> Heights, times |-> Times,
     funds |-> {<<[denom |-> "tok", amount |-> 1]>>},
     tokens |-> Tokens, cw20_amounts |-> {1}, max_amount |-> 1]

InitDeadlines == Init(UDeadlines)
NextDeadlines == Next(UDeadlines)
SpecDeadlines == InitDeadlines /\ [][NextDeadlines]_vars

\* assets in full, every escrow expiring after height 0
UAssets ==
    [ids |-> {"e1"}, arbiters |-> {"arbiter"}, recipients |-> {"recipient"},
     funders |-> {"sender"}, callers |-> Addrs,
     end_heights |-> {Some(0)}, end_times |-> {None},
     heights |-> {0, 1}, times |-> {0},
     funds |-> Coins,
     tokens |-> Tokens, cw20_amounts |-> Amounts, max_amount |-> MaxAmount]

InitAssets == Init(UAssets)
NextAssets == Next(UAssets)
SpecAssets == InitAssets /\ [][NextAssets]_vars

\* two token contracts next to native coins, funding that repeats a
\* denomination, and parties that differ from message to message; the one
\* height deadline is never passed
UMixed ==
    [ids |-> {"e1"}, arbiters |-> {"arbiter"}, recipients |-> {"recipient", "sender"},
     funders |-> {"sender", "arbiter"}, callers |-> Addrs,
     end_heights |-> {None, Some(1)}, end_times |-> {None},
     heights |-> {0, 1}, times |-> {0},
     funds |-> {<<>>, <<[denom |-> "tok", amount |-> 1]>>,
                <<[denom |-> "tok", amount |-> 1], [denom |-> "tok", amount |-> 1]>>},
     tokens |-> Tokens \cup OtherTokens, cw20_amounts |-> {1}, max_amount |-> 1]
InitMixed == Init(UMixed)
NextMixed == Next(UMixed)
SpecMixed == InitMixed /\ [][NextMixed]_vars

\* top-ups by every party of an escrow whose two deadlines pass, up to the
\* largest amount
UTopUp ==
    [ids |-> {"e1"}, arbiters |-> {"arbiter"}, recipients |-> {"recipient"},
     funders |-> Addrs, callers |-> {"arbiter", "sender"},
     end_heights |-> {Some(0)}, end_times |-> {Some(1)},
     heights |-> {0, 1}, times |-> {0, 2000000000},
     funds |-> {<<>>, <<[denom |-> "tok", amount |-> 1]>>},
     tokens |-> Tokens, cw20_amounts |-> {1}, max_amount |-> Uint128Max]
InitTopUp == Init(UTopUp)
NextTopUp == Next(UTopUp)
SpecTopUp == InitTopUp /\ [][NextTopUp]_vars

\* two escrows side by side, each of native coins and a token, without deadlines
UPair ==
    [ids |-> Ids, arbiters |-> {"arbiter"}, recipients |-> {"recipient"},
     funders |-> {"sender"}, callers |-> {"arbiter", "sender"},
     end_heights |-> {None}, end_times |-> {None},
     heights |-> {0, 1}, times |-> {0},
     funds |-> {<<>>, <<[denom |-> "tok", amount |-> 1]>>},
     tokens |-> Tokens, cw20_amounts |-> {1}, max_amount |-> 2]
InitPair == Init(UPair)
NextPair == Next(UPair)
SpecPair == InitPair /\ [][NextPair]_vars

\* ------------------------------------------------------------ the claims
\* what the last message was, on which id, and the record it found there
LastOp == Operation(last.msg)
LastId == last.msg.id
Found == LastId \in DOMAIN last.before
Record == last.before[LastId]
Released == LastOp \in {"approve", "refund"} /\ last.res.err = "Ok"
\* the funds of the last message hold no non-zero amount
NoFunds ==
    IF last.msg.kind = "receive" THEN last.msg.receive.amount = 0
    ELSE \A i \in 1..Len(last.info.funds) : last.info.funds[i].amount = 0
DirectedAt(m, address) ==
    IF m.kind = "bank" THEN m.to_address = address ELSE m.recipient = address

\* C1 as stated: a successful approve or refund finds the record and leaves the
\* id empty, and every approve, refund, top_up or details on an id that was
\* released and not created again fails NotFound.
C1_AsStated ==
    /\ Released => Found /\ LastId \notin DOMAIN escrows
    /\ (LastOp \in {"approve", "refund", "top_up", "details"} /\ ~Found /\ LastId \in spent)
          => last.res.err = "NotFound"

\* C1 (amended): no double spend.  A successful approve or refund finds the
\* record and leaves the id empty in the very state in which its transfer
\* instructions are returned; on an empty id every approve, refund, details and
\* top_up with non-empty funds fails NotFound (a top_up with empty funds fails
\* ZeroBalance), and only a create can fill the id again.
C1_NoDoubleSpend ==
    /\ Released => Found /\ LastId \notin DOMAIN escrows
    /\ (LastOp \in {"approve", "refund", "details"} /\ ~Found)
          => last.res = Err("NotFound")
    /\ (LastOp = "top_up" /\ ~Found)
          => last.res = Err(IF NoFunds THEN "ZeroBalance" ELSE "NotFound")
    /\ (LastOp # "create" /\ ~Found) => escrows = last.before
    /\ spent \cap DOMAIN escrows = {}

\* C1 witness: the arbiter asked again for an escrow already released, and got NotFound
C1_Witness ==
    /\ LastOp \in {"approve", "refund"}
    /\ LastId \in spent
    /\ last.info.sender = "arbiter"
    /\ ~Found
    /\ last.res.err = "NotFound"

\* C2: approve of an existing record by anyone but its arbiter fails
\* Unauthorized, expired or not, and the store stays as it was.
C2_NonArbiterApprove ==
    (LastOp = "approve" /\ Found /\ last.info.sender # Record.arbiter)
        => last.res = Err("Unauthorized") /\ escrows = last.before

\* the deadlines of the record, as documented: a height, and seconds since epoch
HeightPassed(escrow, env) ==
    escrow.end_height # None /\ env.height > escrow.end_height[1]
TimePassed(escrow, env) ==
    escrow.end_time # None /\ env.time > escrow.end_time[1] * 1000000000

\* C2 witness: a non-arbiter was refused on an escrow whose height deadline had passed
C2_Witness ==
    /\ LastOp = "approve"
    /\ Found
    /\ last.info.sender # Record.arbiter
    /\ HeightPassed(Record, last.env)
    /\ last.res.err = "Unauthorized"

\* C3: with end_time unset, the arbiter's approve fails Expired, carrying the
\* record's end_height and end_time and leaving the store as it was, exactly
\* when end_height is set and the block height is above it; otherwise (height
\* not above it, or no deadline at all) the approve succeeds.
C3_HeightExpiry ==
    (LastOp = "approve" /\ Found /\ last.info.sender = Record.arbiter /\ Record.end_time = None)
        => IF Record.end_height # None /\ last.env.height > Record.end_height[1]
           THEN /\ last.res = Resp("Expired", <<>>, <<Record.end_height, Record.end_time>>)
                /\ escrows = last.before
           ELSE last.res.err = "Ok"

\* C3 witness: the arbiter's approve was refused as Expired on a height deadline alone
C3_Witness ==
    /\ LastOp = "approve"
    /\ Found
    /\ last.info.sender = Record.arbiter
    /\ Record.end_time = None
    /\ Record.end_height # None
    /\ last.res.err = "Expired"

\* C4: for a record with end_time = T seconds whose height deadline has not
\* passed, the arbiter's approve is refused as Expired exactly when the block
\* time is later than T seconds since epoch.
C4_TimeExpiry ==
    (LastOp = "approve" /\ Found /\ last.info.sender = Record.arbiter
        /\ Record.end_time # None /\ ~HeightPassed(Record, last.env))
        => (last.res.err = "Expired" <=> TimePassed(Record, last.env))

\* C5: the arbiter's approve of an escrow holding native coins only, none of
\* whose deadlines has passed, removes the record and returns exactly one
\* instruction, a bank send to the recipient of the stored coins; and the coins
\* stored under a live escrow add up, per denomination, to its creation funding
\* plus its top-ups.
C5_ApproveNative ==
    /\ (LastOp = "approve" /\ Found /\ last.info.sender = Record.arbiter
          /\ Record.balance.cw20 = <<>>
          /\ ~HeightPassed(Record, last.env) /\ ~TimePassed(Record, last.env))
          => /\ last.res.err = "Ok"
             /\ LastId \notin DOMAIN escrows
             /\ last.res.messages = <<BankSend(Record.recipient, Record.balance.native)>>
    /\ \A id \in DOMAIN escrows : \A d \in Denoms :
          SumDenom(escrows[id].balance.native, d) = deposited[id].native[d]

\* C5, for the approvals is_expired lets through: what a successful approve of
\* an escrow of native coins returns, and what a live escrow holds
ApproveNativeWhenLetThrough ==
    /\ (LastOp = "approve" /\ last.res.err = "Ok" /\ Found /\ Record.balance.cw20 = <<>>)
          => /\ LastId \notin DOMAIN escrows
             /\ last.res.messages = <<BankSend(Record.recipient, Record.balance.native)>>
    /\ \A id \in DOMAIN escrows : \A d \in Denoms :
          SumDenom(escrows[id].balance.native, d) = deposited[id].native[d]

\* create with 1 tok, top up 1 tok, approve: one send of 2 tok
ApproveNativeSeen ==
    /\ LastOp = "approve"
    /\ last.res.err = "Ok"
    /\ Found
    /\ Record.balance.cw20 = <<>>
    /\ last.res.messages = <<BankSend(Record.recipient, <<[denom |-> "tok", amount |-> 2]>>)>>

C7_RefundToSource ==
    (LastOp = "refund" /\ last.res.err = "Ok")
        => \A i \in 1..Len(last.res.messages) :
               DirectedAt(last.res.messages[i], Record.source)

\* C8: a refund asked by someone other than the arbiter succeeds once a deadline
\* of the escrow has passed, and fails Unauthorized only before that.
C8_RefundAfterTimeout ==
    (LastOp = "refund" /\ Found /\ last.info.sender # Record.arbiter)
        => IF HeightPassed(Record, last.env) \/ TimePassed(Record, last.env)
           THEN last.res.err = "Ok"
           ELSE last.res.err = "Unauthorized"

\* C9: create and top_up with empty funds fail ZeroBalance and leave the store
\* as it was, whether or not the id holds a record.
C9_EmptyFunds ==
    (LastOp \in {"create", "top_up"} /\ NoFunds)
        => last.res = Err("ZeroBalance") /\ escrows = last.before

\* C9 witness: a create without funds on a taken id was refused as ZeroBalance
C9_Witness ==
    /\ LastOp = "create"
    /\ NoFunds
    /\ Found
    /\ last.res.err = "ZeroBalance"

\* C10 as stated: a create on a taken id fails IdAlreadyExists whatever its funds
C10_AsStated ==
    (LastOp = "create" /\ Found)
        => last.res = Err("IdAlreadyExists") /\ escrows = last.before

\* C10 (amended): a create with non-empty funds on a taken id fails
\* IdAlreadyExists (with empty funds it fails ZeroBalance); either way the
\* record under the id stays exactly as it was.
C10_CreateOnTakenId ==
    (LastOp = "create" /\ Found)
        => /\ last.res = Err(IF NoFunds THEN "ZeroBalance" ELSE "IdAlreadyExists")
           /\ escrows = last.before

\* C10 witness: a funded create through the token contract was refused on an id
\* taken by an escrow of native coins
C10_Witness ==
    /\ LastOp = "create"
    /\ last.msg.kind = "receive"
    /\ Found
    /\ Record.balance.cw20 = <<>>
    /\ last.res.err = "IdAlreadyExists"

\* C11: after any sequence of successful native top-ups the stored amount of
\* every denomination is the amount the escrow was created with plus the sum of
\* the amounts topped up, and the top-up just merged and any further top-up
\* give the same amount of every denomination in either order.
C11_NativeTopUps ==
    /\ \A id \in DOMAIN escrows : \A d \in Denoms :
           SumDenom(escrows[id].balance.native, d) = deposited[id].native[d]
    /\ (last.msg.kind = "top_up" /\ last.res.err = "Ok")
           => \A g \in Coins : \A d \in Denoms :
                  SumDenom(AddCoins(escrows[LastId].balance.native, g), d)
                      = SumDenom(AddCoins(AddCoins(Record.balance.native, g),
                                          last.info.funds), d)

\* C11 witness: a native top-up was merged into an escrow that by now holds two
\* denominations, one of them topped up before
C11_Witness ==
    /\ LastOp = "top_up"
    /\ last.msg.kind = "top_up"
    /\ last.res.err = "Ok"
    /\ Len(escrows[LastId].balance.native) = 2
    /\ \E i \in 1..2 : escrows[LastId].balance.native[i].amount = 2

\* C12: a top_up whose merge would raise a stored amount above the largest
\* Uint128 fails with an ArithmeticOverflow error and leaves the record as it
\* was, and no stored amount is ever a wrapped sum (every stored total is the
\* exact sum of what was deposited, within Uint128).
C12_TopUpOverflow ==
    /\ (LastOp = "top_up" /\ Found /\ ~NoFunds
            /\ add_tokens_panics(Record.balance, Funding(last.info, last.msg)))
           => last.res = Err("ArithmeticOverflow") /\ escrows = last.before
    /\ \A id \in DOMAIN escrows :
           /\ \A d \in Denoms :
                  /\ SumDenom(escrows[id].balance.native, d) = deposited[id].native[d]
                  /\ deposited[id].native[d] <= Uint128Max
           /\ \A t \in Tokens :
                  /\ SumToken(escrows[id].balance.cw20, t) = deposited[id].cw20[t]
                  /\ deposited[id].cw20[t] <= Uint128Max

\* what holds of C12 in the code: the overflowing top_up aborts (a panic, no
\* ContractError) with the store as it was, and no stored amount is wrapped
TopUpOverflowAborts ==
    /\ (LastOp = "top_up" /\ Found /\ ~NoFunds
            /\ add_tokens_panics(Record.balance, Funding(last.info, last.msg)))
           => last.res = Err("Panic") /\ escrows = last.before
    /\ \A id \in DOMAIN escrows :
           /\ \A i \in 1..Len(escrows[id].balance.native) :
                  escrows[id].balance.native[i].amount <= Uint128Max
           /\ \A i \in 1..Len(escrows[id].balance.cw20) :
                  escrows[id].balance.cw20[i].amount <= Uint128Max

\* an overflowing top_up of native coins was tried
TopUpOverflowSeen ==
    /\ LastOp = "top_up"
    /\ last.msg.kind = "top_up"
    /\ Found
    /\ add_tokens_panics(Record.balance, Funding(last.info, last.msg))

\* C13: every operation that returns an error (ZeroBalance, IdAlreadyExists,
\* NotFound, Unauthorized, Expired, a malformed body, or the abort on overflow)
\* leaves the whole store as it was before the call.
C13_ErrorKeepsStore ==
    (last.msg.kind \notin {"instantiate", "block"} /\ last.res.err # "Ok")
        => escrows = last.before

\* C13 witness: an approve by the arbiter was refused as Expired, the last of
\* its checks, and the record is still there
C13_Witness ==
    /\ LastOp = "approve"
    /\ last.res.err = "Expired"
    /\ LastId \in DOMAIN escrows

\* C14: the instructions of a successful approve or refund are one bank
\* transfer carrying all native entries, there exactly when the native list is
\* not empty, followed by one token transfer per external entry in the order
\* the entries were inserted, all directed at the same address; so one native
\* denomination and one external token give two instructions, native first.
C14_InstructionOrder ==
    Released =>
        LET balance == Record.balance
            m == last.res.messages
            k == IF balance.native = <<>> THEN 0 ELSE 1
        IN  /\ Len(m) = k + Len(balance.cw20)
            /\ k = 1 => m[1].kind = "bank" /\ m[1].amount = balance.native
            /\ \A i \in 1..Len(balance.cw20) :
                   /\ m[k + i].kind = "wasm"
                   /\ m[k + i].contract_addr = balance.cw20[i].address
                   /\ m[k + i].amount = balance.cw20[i].amount
            /\ \A i, j \in 1..Len(m) :
                   \E address \in Addrs : DirectedAt(m[i], address) /\ DirectedAt(m[j], address)

\* C14 witness: an approve released native coins and two tokens, the token
\* inserted first being the one that sorts last
C14_Witness ==
    /\ LastOp = "approve"
    /\ Released
    /\ Len(Record.balance.native) = 1
    /\ Len(Record.balance.cw20) = 2
    /\ Record.balance.cw20[1].address = "token_contract"
    /\ Len(last.res.messages) = 3

\* the two-instruction case of C14: one denomination and one token
C14_TwoInstructions ==
    /\ Released
    /\ Len(Record.balance.native) = 1
    /\ Len(Record.balance.cw20) = 1
    /\ Len(last.res.messages) = 2
    /\ last.res.messages[1].kind = "bank"

\* C15: after a successful create by any caller, query_details of the id
\* returns the id, arbiter, recipient, end_height and end_time of the request,
\* the creator as source (the caller, or for a create through the token
\* contract the sender the contract names) and the attached funding as
\* balance; and query_details never changes the store.
C15_DetailsAfterCreate ==
    /\ (LastOp = "create" /\ last.res.err = "Ok") =>
           LET through == last.msg.kind = "receive"
               request == IF through THEN last.msg.receive.msg.create ELSE last.msg.create
               details == query_details(escrows, request.id).payload[1]
           IN  /\ query_details(escrows, request.id).err = "Ok"
               /\ details.id = request.id
               /\ details.arbiter = request.arbiter
               /\ details.recipient = request.recipient
               /\ details.end_height = request.end_height
               /\ details.end_time = request.end_time
               /\ details.source = IF through THEN last.msg.receive.sender ELSE last.info.sender
               /\ details.native_balance = IF through THEN <<>> ELSE last.info.funds
               /\ details.cw20_balance
                      = IF through
                        THEN <<[address |-> last.info.sender, amount |-> last.msg.receive.amount]>>
                        ELSE <<>>
    /\ LastOp = "details" =>
           /\ escrows = last.before
           /\ Found => last.res.err = "Ok" /\ last.res.payload[1].source = Record.source

\* C15 witness: details were queried of an escrow that the arbiter created
\* in favour of the sender
C15_Witness ==
    /\ LastOp = "details"
    /\ last.res.err = "Ok"
    /\ last.res.payload[1].source = "arbiter"
    /\ last.res.payload[1].recipient = "sender"
    /\ last.res.payload[1].end_height = Some(1)

\* no two entries of the list have the same denomination (name "denom") or the
\* same token contract (name "address")
Distinct(list, name) ==
    \A i, j \in 1..Len(list) : i # j => list[i][name] # list[j][name]

\* C16: in every reachable state no stored balance has two native entries of
\* one denomination or two external entries of one token contract, whatever
\* funding create was given (a list repeating a denomination included) and
\* whatever was topped up.
C16_NoDuplicateEntries ==
    \A id \in DOMAIN escrows :
        /\ Distinct(escrows[id].balance.native, "denom")
        /\ Distinct(escrows[id].balance.cw20, "address")

\* what holds of C16 in the code: a successful top_up, whatever its funds,
\* adds no duplicate to a record that had none
TopUpKeepsDistinct ==
    (LastOp = "top_up" /\ last.res.err = "Ok"
         /\ Distinct(Record.balance.native, "denom") /\ Distinct(Record.balance.cw20, "address"))
        => /\ Distinct(escrows[LastId].balance.native, "denom")
           /\ Distinct(escrows[LastId].balance.cw20, "address")

\* C17: every stored record has a non-empty balance: at least one native or
\* one external entry.
C17_NonEmptyBalance ==
    \A id \in DOMAIN escrows :
        escrows[id].balance.native # <<>> \/ escrows[id].balance.cw20 # <<>>

\* C17 witness: a create stored a record whose native list is empty, its one
\* entry being an external token
C17_Witness ==
    /\ LastOp = "create"
    /\ last.res.err = "Ok"
    /\ LastId \in DOMAIN escrows
    /\ escrows[LastId].balance.native = <<>>
    /\ Len(escrows[LastId].balance.cw20) = 1

\* C18 as stated: a top_up with non-empty funds on an existing record succeeds,
\* whoever calls and whatever the height and time.
C18_AsStated ==
    (LastOp = "top_up" /\ Found /\ ~NoFunds) => last.res.err = "Ok"

\* C18 (amended): a top_up with non-empty funds on an existing record succeeds
\* for every caller at every height and time, after either deadline too,
\* unless the merge would pass the largest Uint128, in which case it aborts; it
\* never returns Unauthorized or Expired.
C18_TopUpOpen ==
    (LastOp = "top_up" /\ Found /\ ~NoFunds)
        => /\ last.res.err
                  = IF add_tokens_panics(Record.balance, Funding(last.info, last.msg))
                    THEN "Panic" ELSE "Ok"
           /\ last.res.err \notin {"Unauthorized", "Expired"}

\* C18 witness: the recipient, neither arbiter nor source, topped up an escrow
\* after its height deadline and its time deadline had both passed
C18_Witness ==
    /\ LastOp = "top_up"
    /\ last.msg.kind = "top_up"
    /\ Found
    /\ last.info.sender = "recipient"
    /\ Record.source # "recipient"
    /\ HeightPassed(Record, last.env)
    /\ TimePassed(Record, last.env)
    /\ last.res.err = "Ok"

\* C19: a successful top_up changes only the balance: arbiter, recipient,
\* source, end_height and end_time stay as they were, no amount of an existing
\* entry decreases, and no existing entry is removed or moved.
C19_TopUpOnlyAdds ==
    (LastOp = "top_up" /\ last.res.err = "Ok")
        => LET old == Record
               new == escrows[LastId]
           IN  /\ DOMAIN escrows = DOMAIN last.before
               /\ new.arbiter = old.arbiter
               /\ new.recipient = old.recipient
               /\ new.source = old.source
               /\ new.end_height = old.end_height
               /\ new.end_time = old.end_time
               /\ Len(new.balance.native) >= Len(old.balance.native)
               /\ \A i \in 1..Len(old.balance.native) :
                      /\ new.balance.native[i].denom = old.balance.native[i].denom
                      /\ new.balance.native[i].amount >= old.balance.native[i].amount
               /\ Len(new.balance.cw20) >= Len(old.balance.cw20)
               /\ \A i \in 1..Len(old.balance.cw20) :
                      /\ new.balance.cw20[i].address = old.balance.cw20[i].address
                      /\ new.balance.cw20[i].amount >= old.balance.cw20[i].amount

\* C19 witness: a top-up added a second denomination behind the first, whose
\* entry it left as it was
C19_Witness ==
    /\ LastOp = "top_up"
    /\ last.res.err = "Ok"
    /\ Len(Record.balance.native) = 1
    /\ Len(escrows[LastId].balance.native) = 2
    /\ escrows[LastId].balance.native[1] = Record.balance.native[1]

\* C20: a create through receive, called by token contract C with an amount
\* n > 0 sent by S, on a free id stores a record with no native entry, the one
\* external entry (C, n) and source S; an approve of such a record by the
\* arbiter, when it is let through (as it is whenever the record has no time
\* deadline and its height deadline has not passed), yields exactly one token
\* transfer, addressed to C, of n to the recipient.
C20_ReceiveCreate ==
    /\ (last.msg.kind = "receive" /\ LastOp = "create" /\ ~Found
            /\ last.msg.receive.amount > 0)
           => /\ last.res.err = "Ok"
              /\ LastId \in DOMAIN escrows
              /\ escrows[LastId].balance.native = <<>>
              /\ escrows[LastId].balance.cw20
                     = <<[address |-> last.info.sender, amount |-> last.msg.receive.amount]>>
              /\ escrows[LastId].source = last.msg.receive.sender
    /\ (LastOp = "approve" /\ Found /\ last.info.sender = Record.arbiter
            /\ Record.balance.native = <<>> /\ Len(Record.balance.cw20) = 1)
           => /\ (Record.end_time = None /\ ~HeightPassed(Record, last.env))
                      => last.res.err = "Ok"
              /\ last.res.err = "Ok"
                      => last.res.messages
                             = <<[kind |-> "wasm",
                                  contract_addr |-> Record.balance.cw20[1].address,
                                  recipient |-> Record.recipient,
                                  amount |-> Record.balance.cw20[1].amount]>>

\* C20 witness: the arbiter approved an escrow funded through the second token
\* contract, and the one instruction goes to that contract
C20_Witness ==
    /\ LastOp = "approve"
    /\ last.res.err = "Ok"
    /\ Record.balance.native = <<>>
    /\ Len(Record.balance.cw20) = 1
    /\ Record.balance.cw20[1].address = "other_contract"
    /\ Len(last.res.messages) = 1
    /\ last.res.messages[1].contract_addr = "other_contract"

\* C21: every operation on an id, successful or failed, leaves the record under
\* every other id as it was (there or not there), and the instructions of an
\* approve or refund carry exactly the amounts deposited under their own id:
\* every record holds what was deposited under its id, and the instructions
\* carry what the released record held.
C21_Isolation ==
    /\ last.msg.kind \notin {"instantiate", "block"}
           => \A other \in Ids \ {LastId} :
                  /\ other \in DOMAIN escrows <=> other \in DOMAIN last.before
                  /\ other \in DOMAIN escrows => escrows[other] = last.before[other]
    /\ \A id \in DOMAIN escrows :
           /\ \A d \in Denoms :
                  SumDenom(escrows[id].balance.native, d) = deposited[id].native[d]
           /\ \A t \in Tokens \cup OtherTokens :
                  SumToken(escrows[id].balance.cw20, t) = deposited[id].cw20[t]
    /\ Released
           => LET bank == SelectSeq(last.res.messages, LAMBDA m : m.kind = "bank")
                  wasm == SelectSeq(last.res.messages, LAMBDA m : m.kind = "wasm")
              IN  /\ Len(bank) = IF Record.balance.native = <<>> THEN 0 ELSE 1
                  /\ \A i \in 1..Len(bank) : bank[i].amount = Record.balance.native
                  /\ Len(wasm) = Len(Record.balance.cw20)
                  /\ \A i \in 1..Len(wasm) :
                         /\ wasm[i].contract_addr = Record.balance.cw20[i].address
                         /\ wasm[i].amount = Record.balance.cw20[i].amount

\* C21 witness: an escrow was released while the other id held a record of a
\* different balance, which is still there
C21_Witness ==
    /\ Released
    /\ \E other \in Ids \ {LastId} :
           /\ other \in DOMAIN escrows
           /\ escrows[other].balance # Record.balance
           /\ escrows[other].balance.native # <<>>
           /\ Record.balance.native # <<>>

====
